---------------------------- MODULE Spec2Model ----------------------------
(***************************************************************************)
(* NetPlusGames: IPv4 subnet arithmetic and longest-prefix-match route     *)
(* resolution, as computed by the quiz scripts under src/games.            *)
(*                                                                         *)
(* Representation.  TLC integers are 32-bit signed, so a Python int that   *)
(* may reach 2^32 is kept as a record [hi, lo] of value hi * 2^16 + lo     *)
(* with lo in 0..65535.  A dotted-quad string ("192.168.32.0") and the     *)
(* bytes of netmask.packed are 4-tuples of octets; the conversions between *)
(* the two forms are IpInt (parse) and IpStr (format, big-endian).         *)
(***************************************************************************)
EXTENDS Integers, Sequences, FiniteSets, TLC

VARIABLES
    ip,          \* subnet helpers: the address argument, a dotted quad
    cidr,        \* subnet helpers: the prefix-length argument
    fn,          \* subnet helpers: the helper that was called last
    out,         \* subnet helpers: what that call returned
    pc,          \* routing: position in build_routing_table / ask_question
    difficulty,  \* routing: build_routing_table's argument
    n,           \* routing: the drawn table size
    routes,      \* routing: the routes list
    dst,         \* routing: the destination address looked up
    best,        \* routing: longest_prefix_match's first result
    matches,     \* routing: longest_prefix_match's second result
    err,         \* routing: the exception raised, "" when none
    game         \* quiz loops: the local variables of the running session

netVars == <<ip, cidr, fn, out>>
routeVars == <<pc, difficulty, n, routes, dst, best, matches, err>>
vars == <<ip, cidr, fn, out, pc, difficulty, n, routes, dst, best, matches, err, game>>

(***************************************************************************)
(* Python integers of up to 33 bits                                        *)
(***************************************************************************)
Half == 256 * 256

RECURSIVE Pow2(_)
Pow2(k) == IF k = 0 THEN 1 ELSE 2 * Pow2(k - 1)

W(h, l) == [hi |-> h + (l \div Half), lo |-> l % Half]

WAdd(a, b) == W(a.hi + b.hi, a.lo + b.lo)
WSub(a, b) == W(a.hi - b.hi, a.lo - b.lo)
WLe(a, b) == a.hi < b.hi \/ (a.hi = b.hi /\ a.lo <= b.lo)
WOne == W(0, 1)

\* 1 << k, for 0 <= k <= 46
WShl1(k) == IF k >= 16 THEN W(Pow2(k - 16), 0) ELSE W(0, Pow2(k))

\* a >> k for a in 0..2^32-1 and 0 <= k <= 32
WShr(a, k) ==
    IF k >= 16 THEN W(0, a.hi \div Pow2(k - 16))
    ELSE W(a.hi \div Pow2(k), (a.lo \div Pow2(k)) + (a.hi % Pow2(k)) * Pow2(16 - k))

RECURSIVE And16(_, _, _)
And16(a, b, k) ==
    IF k = 0 THEN 0
    ELSE (a % 2) * (b % 2) + 2 * And16(a \div 2, b \div 2, k - 1)

RECURSIVE Or16(_, _, _)
Or16(a, b, k) ==
    IF k = 0 THEN 0
    ELSE (IF (a % 2) + (b % 2) > 0 THEN 1 ELSE 0) + 2 * Or16(a \div 2, b \div 2, k - 1)

RECURSIVE Xor16(_, _, _)
Xor16(a, b, k) ==
    IF k = 0 THEN 0
    ELSE ((a + b) % 2) + 2 * Xor16(a \div 2, b \div 2, k - 1)

WAnd(a, b) == [hi |-> And16(a.hi, b.hi, 16), lo |-> And16(a.lo, b.lo, 16)]
WOr(a, b) == [hi |-> Or16(a.hi, b.hi, 16), lo |-> Or16(a.lo, b.lo, 16)]
WXor(a, b) == [hi |-> Xor16(a.hi, b.hi, 16), lo |-> Xor16(a.lo, b.lo, 16)]

\* bin(o).count("1") of an octet
RECURSIVE PopCount(_)
PopCount(o) == IF o = 0 THEN 0 ELSE (o % 2) + PopCount(o \div 2)

(***************************************************************************)
(* The ipaddress library, as far as the scripts use it                     *)
(***************************************************************************)
ALL_ONES == W(Half - 1, Half - 1)

\* int(IPv4Address("a.b.c.d"))
IpInt(s) == W(s[1] * 256 + s[2], s[3] * 256 + s[4])

\* str(IPv4Address(w)), also IPv4Address(w).packed: big-endian octets
IpStr(w) == <<w.hi \div 256, w.hi % 256, w.lo \div 256, w.lo % 256>>

\* IPv4Network._ip_int_from_prefix
ip_int_from_prefix(prefixlen) == WXor(ALL_ONES, WShr(ALL_ONES, prefixlen))

\* ipaddress.ip_network((address, prefixlen), strict=False)
IPv4Network(address, prefixlen) ==
    LET mask == ip_int_from_prefix(prefixlen)
    IN [network_address |-> WAnd(address, mask), netmask |-> mask, prefixlen |-> prefixlen]

hostmask(net) == WXor(net.netmask, ALL_ONES)
broadcast_address(net) == WOr(net.network_address, hostmask(net))
num_addresses(net) == WAdd(WSub(broadcast_address(net), net.network_address), WOne)

\* IPv4Address in IPv4Network
Contains(net, address) == WAnd(address, net.netmask) = net.network_address

\* list(net.hosts())[0] and [-1] for prefixlen < 31: range(network + 1, broadcast)
hosts_first(net) == WAdd(net.network_address, WOne)
hosts_last(net) == WSub(broadcast_address(net), WOne)

(***************************************************************************)
(* Subnet math helpers of the quiz scripts                                 *)
(***************************************************************************)
ZeroIp == <<0, 0, 0, 0>>

\* for i, o in enumerate(octets, 1): if o != 255: return i   (0: loop ran out)
RECURSIVE FirstNot255(_, _)
FirstNot255(octets, i) ==
    IF i > Len(octets) THEN 0
    ELSE IF octets[i] # 255 THEN i
    ELSE FirstNot255(octets, i + 1)

\* 7-second-subnetting.py
mask_from_cidr(c) == IpStr(IPv4Network(IpInt(ZeroIp), c).netmask)

mask_octets_from_cidr(c) == IpStr(IPv4Network(IpInt(ZeroIp), c).netmask)

\* mutant: 255 - o instead of 256 - o
calculate_magic_number_255(c) ==
    LET octets == mask_octets_from_cidr(c)
        i == FirstNot255(octets, 1)
    IN IF i # 0 THEN 255 - octets[i] ELSE 1

calculate_magic_number(c) ==
    LET octets == mask_octets_from_cidr(c)
        i == FirstNot255(octets, 1)
    IN IF i # 0 THEN 256 - octets[i] ELSE 1

\* mutant: the fallback is the 1-based index
changed_octet_index_fallback4(c) ==
    LET i == FirstNot255(mask_octets_from_cidr(c), 1)
    IN IF i # 0 THEN i - 1 ELSE 4

\* enumerate() counts from 0 here
changed_octet_index(c) ==
    LET i == FirstNot255(mask_octets_from_cidr(c), 1)
    IN IF i # 0 THEN i - 1 ELSE 3

\* mutant: the address itself is returned as the network (no masking)
network_broadcast_unmasked(a, c) ==
    LET net == IPv4Network(IpInt(a), c)
    IN <<a, IpStr(broadcast_address(net))>>

network_broadcast(a, c) ==
    LET net == IPv4Network(IpInt(a), c)
    IN <<IpStr(net.network_address), IpStr(broadcast_address(net))>>

\* mutant: only /32 is taken to have no host range
host_range_gt31(a, c) ==
    LET net == IPv4Network(IpInt(a), c)
    IN IF net.prefixlen >= 32 THEN [none |-> TRUE]
       ELSE [none |-> FALSE, first |-> IpStr(hosts_first(net)), last |-> IpStr(hosts_last(net))]

host_range(a, c) ==
    LET net == IPv4Network(IpInt(a), c)
    IN IF net.prefixlen >= 31 THEN [none |-> TRUE]
       ELSE [none |-> FALSE, first |-> IpStr(hosts_first(net)), last |-> IpStr(hosts_last(net))]

\* Network_Address_Sprint.py
\* mutant: the address is formatted least significant octet first
network_of_little_endian(a, c) ==
    LET w == IPv4Network(IpInt(a), c).network_address
    IN <<w.lo % 256, w.lo \div 256, w.hi % 256, w.hi \div 256>>

network_of(a, c) == IpStr(IPv4Network(IpInt(a), c).network_address)

magic_number_for_cidr(c) ==
    LET parts == IpStr(IPv4Network(IpInt(ZeroIp), c).netmask)
        i == FirstNot255(parts, 1)
    IN IF i # 0 THEN <<i, 256 - parts[i]>> ELSE <<4, 1>>

\* changing_octet_challenge.py
detect_octet(c) ==
    LET i == FirstNot255(IpStr(IPv4Network(IpInt(ZeroIp), c).netmask), 1)
    IN IF i # 0 THEN i ELSE 4

\* magic_number_sprint.py
mns_detect_octet(c) ==
    LET i == FirstNot255(IpStr(IPv4Network(IpInt(ZeroIp), c).netmask), 1)
    IN IF i # 0 THEN i ELSE 4

\* mutant: reads the octet after the changing one
magic_number_next_octet(c) ==
    LET net == IPv4Network(IpInt(ZeroIp), c)
        octet == mns_detect_octet(c)
        mask_bytes == IpStr(net.netmask)
        val == 256 - mask_bytes[IF octet < 4 THEN octet + 1 ELSE 4]
    IN IF val > 0 THEN val ELSE 256

magic_number(c) ==
    LET net == IPv4Network(IpInt(ZeroIp), c)
        octet == mns_detect_octet(c)
        mask_bytes == IpStr(net.netmask)
        val == 256 - mask_bytes[octet]
    IN IF val > 0 THEN val ELSE 256

\* octet_identfier.py
cidr_from_mask(mask) ==
    PopCount(mask[1]) + PopCount(mask[2]) + PopCount(mask[3]) + PopCount(mask[4])

\* (bits >> (8 * i)) & 255 of a Python int
ShrAnd255(bits, i) ==
    IF i >= 2 THEN (bits.hi \div Pow2(8 * (i - 2))) % 256
    ELSE ((bits.lo \div Pow2(8 * i)) + (bits.hi % Pow2(8 * i)) * Pow2(16 - 8 * i)) % 256

\* mutant: the octets are joined least significant first
oi_mask_from_cidr_reversed(c) ==
    LET bits == WSub(WShl1(32), WShl1(32 - c))
    IN <<ShrAnd255(bits, 0), ShrAnd255(bits, 1), ShrAnd255(bits, 2), ShrAnd255(bits, 3)>>

oi_mask_from_cidr(c) ==
    LET bits == WSub(WShl1(32), WShl1(32 - c))
    IN <<ShrAnd255(bits, 3), ShrAnd255(bits, 2), ShrAnd255(bits, 1), ShrAnd255(bits, 0)>>

\* octet_focus_drill: next((i + 1 for i, o in enumerate(parts) if o != "255"), 4)
change_index(c) ==
    LET parts == oi_mask_from_cidr(c)
        i == FirstNot255(parts, 1)
    IN IF i # 0 THEN i ELSE 4

(***************************************************************************)
(* Subnet helpers: inputs and calls                                        *)
(***************************************************************************)
NumAddrs == 12

AddrList ==
    << <<192, 168, 35, 67>>, <<10, 1, 2, 3>>, <<0, 0, 0, 0>>, <<255, 255, 255, 255>>,
       <<172, 16, 255, 1>>, <<128, 0, 0, 0>>, <<127, 255, 255, 255>>, <<1, 2, 3, 4>>,
       <<203, 0, 113, 77>>, <<85, 170, 85, 170>>, <<170, 85, 170, 85>>,
       <<10, 255, 0, 128>>, <<198, 51, 100, 200>>, <<192, 168, 47, 255>> >>

Addrs == {AddrList[i] : i \in {j \in 1..Len(AddrList) : j <= NumAddrs}}

PrefixLens == 0..32

Idle == [none |-> TRUE]

RouteIdle ==
    /\ pc = "idle" /\ difficulty = 0 /\ n = 0 /\ routes = <<>>
    /\ dst = IpInt(ZeroIp) /\ best = Idle /\ matches = <<>> /\ err = ""

InitNet ==
    /\ ip \in Addrs
    /\ cidr \in PrefixLens
    /\ fn = "input"
    /\ out = Idle
    /\ RouteIdle
    /\ game = Idle

Call(name, result) ==
    /\ fn' = name
    /\ out' = result
    /\ UNCHANGED <<ip, cidr, routeVars, game>>

CallNetworkBroadcast ==
    LET r == network_broadcast(ip, cidr)
    IN Call("network_broadcast", [net |-> r[1], bc |-> r[2]])

CallNetworkOf == Call("network_of", [net |-> network_of(ip, cidr)])

\* network_of applied to an address that is itself a network_of result
CallNetworkOfAgain ==
    /\ fn = "network_of"
    /\ Call("network_of_again", [arg |-> out.net, net |-> network_of(out.net, cidr)])

CallHostRange == Call("host_range", host_range(ip, cidr))

CallMaskFromCidr == Call("mask_from_cidr", [mask |-> mask_from_cidr(cidr)])

CallMaskOctetsFromCidr ==
    Call("mask_octets_from_cidr", [mask |-> mask_octets_from_cidr(cidr)])

CallOiMaskFromCidr == Call("oi_mask_from_cidr", [mask |-> oi_mask_from_cidr(cidr)])

\* cidr_from_mask applied to a mask string that mask_from_cidr produced
CallCidrFromMask ==
    /\ fn = "oi_mask_from_cidr"
    /\ Call("cidr_from_mask", [mask |-> out.mask, cidr |-> cidr_from_mask(out.mask)])

CallDetectOctet == Call("detect_octet", [octet |-> detect_octet(cidr)])

CallMnsDetectOctet == Call("mns_detect_octet", [octet |-> mns_detect_octet(cidr)])

CallChangedOctetIndex ==
    Call("changed_octet_index", [index |-> changed_octet_index(cidr)])

CallChangeIndex == Call("change_index", [octet |-> change_index(cidr)])

CallMagicNumberForCidr ==
    LET r == magic_number_for_cidr(cidr)
    IN Call("magic_number_for_cidr", [octet |-> r[1], magic |-> r[2]])

CallMagicNumber == Call("magic_number", [magic |-> magic_number(cidr)])

CallCalculateMagicNumber ==
    Call("calculate_magic_number", [magic |-> calculate_magic_number(cidr)])

NextNet ==
    \/ CallNetworkBroadcast
    \/ CallNetworkOf
    \/ CallNetworkOfAgain
    \/ CallHostRange
    \/ CallMaskFromCidr
    \/ CallMaskOctetsFromCidr
    \/ CallOiMaskFromCidr
    \/ CallCidrFromMask
    \/ CallDetectOctet
    \/ CallMnsDetectOctet
    \/ CallChangedOctetIndex
    \/ CallChangeIndex
    \/ CallMagicNumberForCidr
    \/ CallMagicNumber
    \/ CallCalculateMagicNumber

SpecNet == InitNet /\ [][NextNet]_vars


(***************************************************************************)
(* Properties of the subnet helpers                                        *)
(***************************************************************************)
VectorIp == <<192, 168, 35, 67>>

\* Bit k (1 = most significant, 32 = least) of a 4-octet value
BitOf(octets, k) == (octets[((k - 1) \div 8) + 1] \div Pow2(7 - ((k - 1) % 8))) % 2

\* The octets have exactly L leading one-bits followed by 32 - L zero-bits
LeadingOnes(octets, L) ==
    /\ Len(octets) = 4
    /\ \A j \in 1..4 : octets[j] \in 0..255
    /\ \A k \in 1..32 : BitOf(octets, k) = (IF k <= L THEN 1 ELSE 0)

\* Octet j of the mask of prefix length L, from the data model: the one-bits
\* of the mask that fall in octet j
RefMaskOctet(L, j) ==
    LET k == IF L - 8 * (j - 1) < 0 THEN 0
             ELSE IF L - 8 * (j - 1) > 8 THEN 8 ELSE L - 8 * (j - 1)
    IN 256 - Pow2(8 - k)

\* e is the 1-based index of the first mask octet that is not 255, or 4 when
\* all four octets are 255
IsChangingOctet(L, e) ==
    /\ e \in 1..4
    /\ \A j \in 1..(e - 1) : RefMaskOctet(L, j) = 255
    /\ \/ RefMaskOctet(L, e) # 255
       \/ e = 4 /\ \A j \in 1..4 : RefMaskOctet(L, j) = 255

\* C5: for every address A and prefix length L, the network and broadcast
\* addresses of network_broadcast(A, L) satisfy network <= A <= broadcast as
\* unsigned integers and broadcast - network + 1 = 2^(32-L); the network of
\* network_of(A, L) lies at most 2^(32-L) - 1 below A.
Thm_C5_NetworkBroadcastBounds ==
    /\ fn = "network_broadcast" =>
          LET nw == IpInt(out.net)
              bc == IpInt(out.bc)
              a == IpInt(ip)
          IN /\ WLe(nw, a)
             /\ WLe(a, bc)
             /\ WAdd(WSub(bc, nw), WOne) = WShl1(32 - cidr)
    /\ fn = "network_of" =>
          LET nw == IpInt(out.net)
              a == IpInt(ip)
          IN /\ WLe(nw, a)
             /\ WLe(WAdd(WSub(a, nw), WOne), WShl1(32 - cidr))

Wit_C5_Vector ==
    /\ fn = "network_broadcast"
    /\ ip = VectorIp
    /\ cidr = 20
    /\ out.net = <<192, 168, 32, 0>>
    /\ out.bc = <<192, 168, 47, 255>>

\* C6: network computation is idempotent: network_of applied to a
\* network_of result under the same prefix length returns that result.
Thm_C6_NetworkIdempotent ==
    fn = "network_of_again" => out.net = out.arg

Wit_C6_HostBitsCleared ==
    /\ fn = "network_of_again"
    /\ out.arg # ip
    /\ out.net = out.arg
    /\ cidr \in 1..31

\* C7: host_range(A, L) returns None exactly when L >= 31, and for L <= 30
\* the pair (network + 1, broadcast - 1) of the subnet containing A.
Thm_C7_HostRange ==
    fn = "host_range" =>
        LET nb == network_broadcast(ip, cidr)
        IN /\ out.none <=> cidr >= 31
           /\ cidr <= 30 =>
                /\ IpInt(out.first) = WAdd(IpInt(nb[1]), WOne)
                /\ WAdd(IpInt(out.last), WOne) = IpInt(nb[2])
                /\ WLe(IpInt(nb[1]), IpInt(ip)) /\ WLe(IpInt(ip), IpInt(nb[2]))

Wit_C7_Vector ==
    /\ fn = "host_range"
    /\ ip = VectorIp
    /\ cidr = 20
    /\ ~out.none
    /\ out.first = <<192, 168, 32, 1>>
    /\ out.last = <<192, 168, 47, 254>>

\* C8: for every prefix length L, each mask_from_cidr yields four octets
\* with exactly L leading one-bits followed by 32 - L zero-bits, and
\* cidr_from_mask(mask_from_cidr(L)) = L.
Thm_C8_MaskRoundTrip ==
    /\ fn \in {"oi_mask_from_cidr", "mask_from_cidr", "mask_octets_from_cidr"} =>
          LeadingOnes(out.mask, cidr)
    /\ fn = "cidr_from_mask" => out.cidr = cidr

Wit_C8_RoundTrip20 ==
    /\ fn = "cidr_from_mask"
    /\ cidr = 20
    /\ out.mask = <<255, 255, 240, 0>>
    /\ out.cidr = 20

\* C9: for every prefix length L, every changing-octet detector returns the
\* 1-based index of the first mask octet that is not 255, and 4 when all four
\* octets are 255 (changed_octet_index returns that index less one).
Thm_C9_DetectorsAgree ==
    /\ fn \in {"detect_octet", "mns_detect_octet", "change_index", "magic_number_for_cidr"} =>
          IsChangingOctet(cidr, out.octet)
    /\ fn = "changed_octet_index" => IsChangingOctet(cidr, out.index + 1)

Wit_C9_AllOnes ==
    /\ fn = "changed_octet_index"
    /\ cidr = 32
    /\ out.index = 3

\* C10: for every prefix length L the magic number is a power of two in
\* {1, 2, 4, ..., 256}, divides 256, and equals 256 exactly when L is a
\* multiple of 8 with L < 32.
Thm_C10_MagicPowerOfTwo ==
    fn \in {"magic_number", "calculate_magic_number"} =>
        /\ out.magic \in {Pow2(k) : k \in 0..8}
        /\ 256 % out.magic = 0
        /\ out.magic = 256 <=> (cidr % 8 = 0 /\ cidr < 32)

Wit_C10_Vector ==
    /\ fn = "magic_number"
    /\ cidr = 20
    /\ out.magic = 16

\* C11 as stated: for every prefix length L in 0..32 the magic number
\* 256 - (mask value of the changing octet) equals 2^(32-L) mod 256 clamped
\* into [1, 256].  (2^(32-L) mod 256 is the low byte of 1 << (32 - L).)
Cex_C11_Pow2Mod256Clamped ==
    fn = "magic_number" =>
        LET x == WShl1(32 - cidr).lo % 256
        IN out.magic = (IF x < 1 THEN 1 ELSE IF x > 256 THEN 256 ELSE x)

\* C11 amended: for every prefix length L in 0..32 the magic number
\* 256 - (mask value of the changing octet) equals 2^(8 - (L mod 8)) when
\* L < 32, which is 256 when L is a multiple of 8, and 1 when L = 32; it
\* equals 2^(32-L) only for L >= 24.
Thm_C11_MagicIsBlockInOctet ==
    fn = "magic_number" =>
        /\ out.magic = 256 - mask_from_cidr(cidr)[mns_detect_octet(cidr)]
        /\ out.magic = (IF cidr = 32 THEN 1 ELSE Pow2(8 - (cidr % 8)))
        /\ cidr >= 24 => WShl1(32 - cidr) = W(0, out.magic)

Wit_C11_WholeOctet ==
    /\ fn = "magic_number"
    /\ cidr = 16
    /\ mns_detect_octet(cidr) = 3
    /\ out.magic = 256


(***************************************************************************)
(* next_hop_trainer.py: longest_prefix_match                               *)
(***************************************************************************)
None == [none |-> TRUE]

IFACES == <<"eth0", "eth1", "eth2", "wan0", "lan0", "uplink", "dmz0">>
NHOPS == <<"10.0.0.1", "10.0.1.1", "192.168.0.1", "172.16.0.1", "203.0.113.1", "198.51.100.1">>

\* mutant: the metric is compared before the prefix length
KeyLess_metric_first(r1, r2) ==
    \/ r1.metric < r2.metric
    \/ r1.metric = r2.metric /\ (0 - r1.dest.prefixlen) < (0 - r2.dest.prefixlen)

\* key=lambda r: (-r["dest"].prefixlen, r["metric"]), tuples compared in order
KeyLess(r1, r2) ==
    \/ (0 - r1.dest.prefixlen) < (0 - r2.dest.prefixlen)
    \/ (0 - r1.dest.prefixlen) = (0 - r2.dest.prefixlen) /\ r1.metric < r2.metric

\* Insert x behind every element whose key is not greater than x's
RECURSIVE InsertStable(_, _)
InsertStable(sorted, x) ==
    IF sorted = <<>> THEN <<x>>
    ELSE IF KeyLess(x, Head(sorted)) THEN <<x>> \o sorted
    ELSE <<Head(sorted)>> \o InsertStable(Tail(sorted), x)

\* mutant: x goes in front of the elements with an equal key
RECURSIVE InsertUnstable(_, _)
InsertUnstable(sorted, x) ==
    IF sorted = <<>> THEN <<x>>
    ELSE IF ~KeyLess(Head(sorted), x) THEN <<x>> \o sorted
    ELSE <<Head(sorted)>> \o InsertUnstable(Tail(sorted), x)

RECURSIVE SortedUnstable(_)
SortedUnstable(seq) ==
    IF seq = <<>> THEN <<>>
    ELSE InsertUnstable(SortedUnstable(SubSeq(seq, 1, Len(seq) - 1)), seq[Len(seq)])

\* sorted(matches, key=...): a stable sort, equal keys keep their input order
RECURSIVE Sorted(_)
Sorted(seq) ==
    IF seq = <<>> THEN <<>>
    ELSE InsertStable(Sorted(SubSeq(seq, 1, Len(seq) - 1)), seq[Len(seq)])

IsMatch(r, a) == Contains(r.dest, a)

\* for r in routes: if ip in r["dest"]: matches.append(r)
Matching(rs, a) == SelectSeq(rs, LAMBDA r : IsMatch(r, a))

\* mutant: matches_sorted[0] is taken without the emptiness test
longest_prefix_match_unguarded(rs, a) ==
    LET matches_sorted == Sorted(Matching(rs, a))
    IN IF matches_sorted # <<>>
       THEN [best |-> matches_sorted[1], matches |-> matches_sorted, raised |-> ""]
       ELSE [best |-> None, matches |-> matches_sorted, raised |-> "IndexError"]

\* Returns (best, matches_sorted); raised is the exception, "" when none
longest_prefix_match(rs, a) ==
    LET matches_sorted == Sorted(Matching(rs, a))
    IN [best |-> IF matches_sorted # <<>> THEN matches_sorted[1] ELSE None,
        matches |-> matches_sorted,
        raised |-> ""]

(***************************************************************************)
(* longest_prefix_match on arbitrary route lists                           *)
(***************************************************************************)
MaxRoutes == 3

Net(a, prefixlen) == IPv4Network(IpInt(a), prefixlen)

LpmDests == {Net(<<0, 0, 0, 0>>, 0), Net(<<10, 0, 0, 0>>, 8), Net(<<10, 1, 0, 0>>, 16)}
LpmMetrics == {5, 10}
LpmHops == {NHOPS[1], NHOPS[2]}
LpmAddrs == {IpInt(<<10, 1, 2, 3>>), IpInt(<<10, 2, 0, 1>>), IpInt(<<192, 168, 1, 5>>)}

LpmRoutes ==
    {[dest |-> d, next_hop |-> h, iface |-> IFACES[1], metric |-> m, desc |-> ""] :
        d \in LpmDests, h \in LpmHops, m \in LpmMetrics}

InitLPM ==
    /\ ip = ZeroIp /\ cidr = 0 /\ fn = "input" /\ out = Idle
    /\ game = Idle
    /\ pc = "lpm_input"
    /\ difficulty = 0
    /\ n = 0
    /\ routes \in UNION {[1..k -> LpmRoutes] : k \in 0..MaxRoutes}
    /\ dst \in LpmAddrs
    /\ best = None
    /\ matches = <<>>
    /\ err = ""

CallLongestPrefixMatch ==
    /\ pc = "lpm_input"
    /\ LET r == longest_prefix_match(routes, dst)
       IN /\ best' = r.best
          /\ matches' = r.matches
          /\ err' = r.raised
    /\ pc' = "lpm_done"
    /\ UNCHANGED <<netVars, game, difficulty, n, routes, dst>>

NextLPM == CallLongestPrefixMatch

SpecLPM == InitLPM /\ [][NextLPM]_vars

\* D lies in the route's CIDR block: block start <= D <= block start +
\* block size - 1, the block size being 2^(32 - prefix length)
InBlock(r, a) ==
    /\ WLe(r.dest.network_address, a)
    /\ WLe(a, WSub(WAdd(r.dest.network_address, WShl1(32 - r.dest.prefixlen)), WOne))

Containing == {i \in 1..Len(routes) : InBlock(routes[i], dst)}

\* Of the routes C, those that none of C beats on (prefix length, then metric)
WinnersOf(C) ==
    {i \in C :
        \A j \in C :
            \/ routes[j].dest.prefixlen < routes[i].dest.prefixlen
            \/ /\ routes[j].dest.prefixlen = routes[i].dest.prefixlen
               /\ routes[i].metric <= routes[j].metric}

Winners == WinnersOf(Containing)

Looked == pc \in {"lpm_done", "asked"}

\* C1: longest_prefix_match returns as best a route whose destination
\* contains the address, whose prefix length is the maximum among the
\* containing routes, and whose metric is the minimum among the containing
\* routes of that prefix length; the metric of shorter prefixes plays no part.
Thm_C1_LongestPrefixThenMetric ==
    Looked =>
        LET C == Containing
        IN C # {} =>
            /\ best # None
            /\ \E i \in C : best = routes[i]
            /\ \A j \in C :
                  /\ routes[j].dest.prefixlen <= best.dest.prefixlen
                  /\ routes[j].dest.prefixlen = best.dest.prefixlen =>
                        best.metric <= routes[j].metric
            /\ Len(matches) = Cardinality(C)

Wit_C1_LongerPrefixWorseMetric ==
    /\ pc = "lpm_done"
    /\ best # None
    /\ best.dest.prefixlen = 16
    /\ best.metric = 10
    /\ \E j \in Containing : routes[j].dest.prefixlen = 8 /\ routes[j].metric = 5

\* C2: when no route contains the destination address, which needs a table
\* without a /0 route, longest_prefix_match returns best = None and an empty
\* match list and raises nothing; a route it returns always contains the
\* address.
Thm_C2_NoMatchIsNone ==
    Looked =>
        /\ Containing = {} => (best = None /\ matches = <<>> /\ err = "")
        /\ (\E i \in 1..Len(routes) : routes[i].dest.prefixlen = 0) => best # None
        /\ best # None => InBlock(best, dst)
        /\ err = ""

Wit_C2_NoDefaultNoMatch ==
    /\ pc = "lpm_done"
    /\ Len(routes) >= 2
    /\ Containing = {}
    /\ best = None
    /\ matches = <<>>

\* C4: when several containing routes tie on both prefix length and metric,
\* the one that comes first in the input list is selected.
Thm_C4_FirstOfTiesSelected ==
    Looked =>
        LET Ws == Winners
        IN Ws # {} => best = routes[CHOOSE i \in Ws : \A j \in Ws : i <= j]

Wit_C4_TieBrokenByOrder ==
    /\ pc = "lpm_done"
    /\ LET Ws == Winners
       IN \E i \in Ws : \E j \in Ws :
            /\ i < j
            /\ routes[i] # routes[j]
            /\ best = routes[i]


(***************************************************************************)
(* next_hop_trainer.py: build_routing_table, choose_destination_ip and     *)
(* ask_question.  The values the random module can return are drawn from   *)
(* the sample sets below.                                                  *)
(***************************************************************************)
\* random.choice(seq), restricted to the positions in picks
Choice(seq, picks) == {seq[i] : i \in picks \cap DOMAIN seq}

FirstPick == {1}
PrefixSamples == {16, 22, 24}
MetricSamples == {7}
OffsetSamples == {W(1, 515)}
PoolPicks == {1, 6}
PoolOffsetSamples == {W(0, 8)}
HostIndexSamples == {WOne}

\* random.randint(lo, hi) where it draws a metric, and where it draws a prefix
MetricDraw(lo, hi) == {m \in MetricSamples : lo <= m /\ m <= hi}
PrefixDraw(lo, hi) == {q \in PrefixSamples : lo <= q /\ q <= hi}

blocks ==
    << Net(<<10, 0, 0, 0>>, 8), Net(<<172, 16, 0, 0>>, 12), Net(<<192, 168, 0, 0>>, 16),
       Net(<<198, 51, 100, 0>>, 24), Net(<<203, 0, 113, 0>>, 24) >>

\* rnd_ip_int = int(base.network_address) + random.randint(0, num_addresses - 1)
RandomAddressIn(base) ==
    {WAdd(base.network_address, off) :
        off \in {o \in OffsetSamples : WLe(o, WSub(num_addresses(base), WOne))}}

random_network(min_prefix, max_prefix) ==
    UNION {{IPv4Network(rnd_ip, pfx) :
                rnd_ip \in RandomAddressIn(base), pfx \in PrefixDraw(min_prefix, max_prefix)} :
            base \in Choice(blocks, FirstPick)}

\* sizes = {1: (4,5), 2: (6,7), 3: (8,10)}; sizes.get(difficulty, (6,7))
sizes(d) ==
    IF d = 1 THEN <<4, 5>>
    ELSE IF d = 2 THEN <<6, 7>>
    ELSE IF d = 3 THEN <<8, 10>>
    ELSE <<6, 7>>

DefaultNet == Net(<<0, 0, 0, 0>>, 0)

default_routes ==
    {[dest |-> DefaultNet, next_hop |-> h, iface |-> f, metric |-> m, desc |-> "Default"] :
        h \in Choice(NHOPS, FirstPick), f \in Choice(IFACES, FirstPick), m \in MetricDraw(1, 20)}

\* The routes one pass of the for loop can append
LoopNets(d) ==
    IF d = 1 THEN random_network(12, 24)
    ELSE IF d = 2 THEN random_network(10, 28)
    ELSE random_network(8, 28)

LoopRoutes1 ==
    {[dest |-> net, next_hop |-> h, iface |-> f, metric |-> m, desc |-> ""] :
        net \in LoopNets(1), h \in Choice(NHOPS, FirstPick),
        f \in Choice(IFACES, FirstPick), m \in MetricDraw(1, 20)}

LoopRoutes2 ==
    {[dest |-> net, next_hop |-> h, iface |-> f, metric |-> m, desc |-> ""] :
        net \in LoopNets(2), h \in Choice(NHOPS, FirstPick),
        f \in Choice(IFACES, FirstPick), m \in MetricDraw(1, 20)}

LoopRoutes3 ==
    {[dest |-> net, next_hop |-> h, iface |-> f, metric |-> m, desc |-> ""] :
        net \in LoopNets(3), h \in Choice(NHOPS, FirstPick),
        f \in Choice(IFACES, FirstPick), m \in MetricDraw(1, 20)}

LoopRoutes(d) == IF d = 1 THEN LoopRoutes1 ELSE IF d = 2 THEN LoopRoutes2 ELSE LoopRoutes3

\* The pairs <<r1, r2>> ("Tie A", "Tie B") the tie block can append
TiePairsOn(base, h1) ==
    {<< [dest |-> base, next_hop |-> h1, iface |-> f1, metric |-> 10, desc |-> "Tie A"],
        [dest |-> base, next_hop |-> h2, iface |-> f2, metric |-> 5, desc |-> "Tie B"] >> :
        f1 \in Choice(IFACES, FirstPick),
        h2 \in Choice(SelectSeq(NHOPS, LAMBDA nh : nh # h1), FirstPick),
        f2 \in Choice(IFACES, FirstPick)}

TiePairs ==
    UNION {TiePairsOn(base, h1) :
            base \in random_network(20, 26), h1 \in Choice(NHOPS, FirstPick)}

\* mutant: routes are keyed by interface
DedupKey_iface(r) == r.iface

\* key = (str(r["dest"]),): the network address and the prefix length
DedupKey(r) == <<IpStr(r.dest.network_address), r.dest.prefixlen>>

\* unique = {}; for r in routes: if key not in unique or r["metric"] <
\* unique[key]["metric"]: unique[key] = r.  A dict keeps its keys in the
\* order of their first insertion.
RECURSIVE Dedup(_, _)
Dedup(unique, rs) ==
    IF rs = <<>> THEN unique
    ELSE LET r == Head(rs)
             at == {i \in DOMAIN unique : DedupKey(unique[i]) = DedupKey(r)}
         IN IF at = {} THEN Dedup(Append(unique, r), Tail(rs))
            ELSE LET i == CHOOSE i \in at : TRUE
                 IN IF r.metric < unique[i].metric
                    THEN Dedup([unique EXCEPT ![i] = r], Tail(rs))
                    ELSE Dedup(unique, Tail(rs))

\* random.shuffle(routes): every order of the list
Shuffles(rs) ==
    {[i \in 1..Len(rs) |-> rs[f[i]]] :
        f \in {g \in [1..Len(rs) -> 1..Len(rs)] : \A i, j \in 1..Len(rs) : g[i] = g[j] => i = j}}

pool ==
    << Net(<<10, 0, 0, 0>>, 8), Net(<<172, 16, 0, 0>>, 12), Net(<<192, 168, 0, 0>>, 16),
       Net(<<198, 51, 100, 0>>, 24), Net(<<203, 0, 113, 0>>, 24), Net(<<8, 8, 8, 0>>, 24) >>

Two == WAdd(WOne, WOne)

choose_destination_ip(rs) ==
    LET non_default == SelectSeq(rs, LAMBDA r : r.dest.prefixlen # 0)
        inside ==
            {IF ~WLe(num_addresses(r.dest), Two)
             THEN WAdd(r.dest.network_address, host_index)
             ELSE r.dest.network_address :
                r \in Choice(non_default, DOMAIN non_default),
                host_index \in HostIndexSamples}
        anywhere ==
            UNION {{WAdd(base.network_address, off) :
                        off \in {o \in PoolOffsetSamples :
                                    WLe(o, WSub(num_addresses(base), WOne))}} :
                    base \in Choice(pool, PoolPicks)}
    IN inside \cup anywhere

InitTable ==
    /\ ip = ZeroIp /\ cidr = 0 /\ fn = "input" /\ out = Idle
    /\ game = Idle
    /\ pc = "build"
    /\ difficulty \in {1, 2, 3}
    /\ n = 0
    /\ routes = <<>>
    /\ dst = IpInt(ZeroIp)
    /\ best = None
    /\ matches = <<>>
    /\ err = ""

\* n = random.randint(lo, hi); routes.append(default_route)
BuildStart ==
    /\ pc = "build"
    /\ n' \in sizes(difficulty)[1]..sizes(difficulty)[2]
    /\ routes' \in {<<r>> : r \in default_routes}
    /\ pc' = "loop"
    /\ UNCHANGED <<netVars, game, difficulty, dst, best, matches, err>>

\* one pass of: for _ in range(n-1)
BuildLoop ==
    /\ pc = "loop"
    /\ Len(routes) - 1 < n - 1
    /\ \E r \in LoopRoutes(difficulty) : routes' = Append(routes, r)
    /\ UNCHANGED <<netVars, game, pc, difficulty, n, dst, best, matches, err>>

\* if difficulty >= 3 and len(routes) >= 3: append Tie A and Tie B
BuildTie ==
    /\ pc = "loop"
    /\ Len(routes) - 1 = n - 1
    /\ \/ /\ difficulty >= 3 /\ Len(routes) >= 3
          /\ \E t \in TiePairs : routes' = routes \o t
       \/ /\ ~(difficulty >= 3 /\ Len(routes) >= 3)
          /\ routes' = routes
    /\ pc' = "dedup"
    /\ UNCHANGED <<netVars, game, difficulty, n, dst, best, matches, err>>

\* De-duplicate identical destinations, keeping the best metric
BuildDedup ==
    /\ pc = "dedup"
    /\ routes' = Dedup(<<>>, routes)
    /\ pc' = "shuffle"
    /\ UNCHANGED <<netVars, game, difficulty, n, dst, best, matches, err>>

\* random.shuffle(routes); return routes
BuildShuffle ==
    /\ pc = "shuffle"
    /\ routes' \in Shuffles(routes)
    /\ pc' = "returned"
    /\ UNCHANGED <<netVars, game, difficulty, n, dst, best, matches, err>>

\* ask_question, from the returned table to correct_next = best["next_hop"]
\* and correct_if = best["iface"], which raise TypeError when best is None
AskQuestion ==
    /\ pc = "returned"
    /\ \E a \in choose_destination_ip(routes) :
          LET r == longest_prefix_match(routes, a)
          IN /\ dst' = a
             /\ best' = r.best
             /\ matches' = r.matches
             /\ err' = IF r.raised # "" THEN r.raised
                       ELSE IF r.best = None THEN "TypeError" ELSE ""
    /\ pc' = "asked"
    /\ UNCHANGED <<netVars, game, difficulty, n, routes>>

NextTable ==
    \/ BuildStart
    \/ BuildLoop
    \/ BuildTie
    \/ BuildDedup
    \/ BuildShuffle
    \/ AskQuestion

SpecTable == InitTable /\ [][NextTable]_vars

HasDefault(rs) == \E i \in 1..Len(rs) : rs[i].dest = DefaultNet

\* C3: every routing table build_routing_table returns, at every difficulty,
\* after de-duplication and shuffling, contains the default route 0.0.0.0/0;
\* so in ask_question longest_prefix_match never yields None and
\* best["next_hop"] / best["iface"] never fail.
Thm_C3_DefaultRouteKept ==
    /\ pc \in {"returned", "asked"} => HasDefault(routes)
    /\ pc = "asked" => (best # None /\ err = "" /\ InBlock(best, dst))

Wit_C3_FallsToDefault ==
    /\ pc = "asked"
    /\ difficulty = 3
    /\ Len(routes) >= 3
    /\ best # None
    /\ best.dest = DefaultNet
    /\ err = ""

\* build_routing_table has returned its list
Returned == pc \in {"returned", "asked"}

\* C13 as stated: at difficulty 3 the returned routing table contains an
\* equal-prefix tie, two routes with the same destination network whose
\* metrics are 10 and 5.
Cex_C13_TiePairReturned ==
    (Returned /\ difficulty = 3) =>
        \E i, j \in 1..Len(routes) :
            /\ i # j
            /\ routes[i].dest = routes[j].dest
            /\ routes[i].metric = 10
            /\ routes[j].metric = 5

\* C14 as stated: the returned routing table has 4-5 entries at difficulty
\* 1, 6-7 at difficulty 2 and 8-10 at difficulty 3, default route included,
\* for every outcome of the random choices.
Cex_C14_TableSize ==
    Returned => Len(routes) \in sizes(difficulty)[1]..sizes(difficulty)[2]

(***************************************************************************)
(* Mask derivation from a prefix length outside 0..32.  A call either      *)
(* returns a value (raised = "") or raises the named exception.            *)
(***************************************************************************)
Margin == 2

AnyPrefix == (0 - Margin)..(32 + Margin)

Returns(v) == [raised |-> "", value |-> v]
Raises(e) == [raised |-> e]

\* ipaddress.ip_network(f"0.0.0.0/{cidr}"): a prefix length that is not a
\* decimal number in 0..32 raises ValueError
ip_network(c) ==
    IF c \in 0..32 THEN Returns(IPv4Network(IpInt(ZeroIp), c))
    ELSE Raises("ValueError")

\* 7-second-subnetting.py
try_mask_from_cidr(c) ==
    LET net == ip_network(c)
    IN IF net.raised # "" THEN net ELSE Returns(IpStr(net.value.netmask))

try_mask_octets_from_cidr(c) ==
    LET net == ip_network(c)
    IN IF net.raised # "" THEN net ELSE Returns(IpStr(net.value.netmask))

\* changing_octet_challenge.py
try_detect_octet(c) ==
    LET net == ip_network(c)
    IN IF net.raised # "" THEN net ELSE Returns(detect_octet(c))

\* octet_identfier.py: 1 << (32 - cidr) raises ValueError("negative shift
\* count") when cidr > 32; for cidr < 0 bits is negative and every
\* (bits >> (8 * i)) & 255 is computed from it
try_oi_mask_from_cidr(c) ==
    IF 32 - c < 0 THEN Raises("ValueError")
    ELSE Returns(oi_mask_from_cidr(c))

InitPrefix ==
    /\ ip = ZeroIp
    /\ cidr \in AnyPrefix
    /\ fn = "input"
    /\ out = Idle
    /\ RouteIdle
    /\ game = Idle

TryMaskFromCidr ==
    fn = "input" /\ Call("mask_from_cidr", try_mask_from_cidr(cidr))

TryMaskOctetsFromCidr ==
    fn = "input" /\ Call("mask_octets_from_cidr", try_mask_octets_from_cidr(cidr))

TryDetectOctet ==
    fn = "input" /\ Call("detect_octet", try_detect_octet(cidr))

TryOiMaskFromCidr ==
    fn = "input" /\ Call("oi_mask_from_cidr", try_oi_mask_from_cidr(cidr))

NextPrefix ==
    \/ TryMaskFromCidr
    \/ TryMaskOctetsFromCidr
    \/ TryDetectOctet
    \/ TryOiMaskFromCidr

SpecPrefix == InitPrefix /\ [][NextPrefix]_vars

\* C12 as stated: a prefix length outside 0..32 passed to a mask-derivation
\* helper (octet_identfier.mask_from_cidr, mask_octets_from_cidr,
\* detect_octet) raises an error; no helper returns a mask for it.
Cex_C12_OutOfRangeRaises ==
    (fn # "input" /\ cidr \notin 0..32) => out.raised # ""

(***************************************************************************)
(* 7-second-subnetting.py: main_menu, play_game, play_question,            *)
(* interactive_tutorial.  game.at is the input() call the program is       *)
(* blocked in; game.last is the line read last and the prompt it was typed *)
(* at.  Points, times and the high-score file are not part of the state.   *)
(***************************************************************************)
NetIdle == ip = ZeroIp /\ cidr = 0 /\ fn = "input" /\ out = Idle

\* lines a player can type, already stripped
Lines == {"q", "h", "", "1", "2", "3", "4", "x"}

\* int(s)
ParseInt(s) ==
    CASE s = "1" -> Returns(1) [] s = "2" -> Returns(2)
      [] s = "3" -> Returns(3) [] s = "4" -> Returns(4)
      [] OTHER -> Raises("ValueError")

\* generate_random_cidr: random.randint(16, 30)
TutorialCidrs == {16, 24, 30}

\* in main_menu's loop, no activity running
Menu7 ==
    [at |-> "menu", activity |-> "menu", name |-> "", total_qs |-> 0,
     qnum |-> 0, step |-> 0, steps |-> 0, penalties |-> 0,
     last |-> [prompt |-> "", line |-> ""]]

Init7 ==
    /\ NetIdle
    /\ RouteIdle
    /\ game = Menu7

Read7(line, g) ==
    /\ game' = [g EXCEPT !.last = [prompt |-> game.at, line |-> line]]
    /\ UNCHANGED <<netVars, routeVars>>

\* the activity returns to main_menu's loop; its locals are gone
ToMenu == Menu7

\* main_menu: choice = input("Select an option: ").strip()
MenuInput ==
    /\ game.at = "menu"
    /\ \E line \in Lines, c \in TutorialCidrs :
         Read7(line,
            CASE line = "1" -> [game EXCEPT !.at = "name", !.activity = "game"]
              [] line = "2" ->
                    [game EXCEPT !.at = "answer", !.activity = "tutorial",
                                 !.step = 1, !.penalties = 0,
                                 !.steps = IF host_range(VectorIp, c).none
                                           THEN 6 ELSE 8]
              [] line = "3" -> [game EXCEPT !.at = "scores"]
              [] line = "4" -> [game EXCEPT !.at = "exited"]
              [] OTHER -> game)

\* play_game: name = input("Enter your name: ").strip() or "Anonymous"
NameInput ==
    /\ game.at = "name"
    /\ \E line \in Lines :
         Read7(line, [game EXCEPT !.name = IF line = "" THEN "Anonymous" ELSE line,
                                  !.at = "count"])

\* play_game: total_qs = int(input(...)); repeated until a positive integer
CountInput ==
    /\ game.at = "count"
    /\ \E line \in Lines :
         LET v == ParseInt(line)
         IN Read7(line,
                IF v.raised = "" /\ v.value > 0
                THEN [game EXCEPT !.total_qs = v.value, !.qnum = 1, !.step = 1,
                                  !.steps = 3, !.penalties = 0, !.at = "answer"]
                ELSE game)

\* ask_with_hint has returned an answer: the next prompt of play_question /
\* play_game, or of interactive_tutorial
Answered ==
    IF game.step < game.steps
    THEN [game EXCEPT !.step = game.step + 1, !.at = "answer"]
    ELSE IF game.activity = "tutorial"
    THEN [game EXCEPT !.at = "enter"]
    ELSE IF game.qnum < game.total_qs
    THEN [game EXCEPT !.qnum = game.qnum + 1, !.step = 1, !.penalties = 0,
                      !.at = "answer"]
    ELSE [game EXCEPT !.at = "enter"]

\* ask_with_hint: the first input(prompt)
AnswerInput ==
    /\ game.at = "answer"
    /\ \E line \in Lines :
         Read7(line,
            CASE line = "q" -> ToMenu
              [] line = "h" ->
                    [game EXCEPT !.at = "retry",
                                 !.penalties = IF game.activity = "game"
                                               THEN game.penalties + 1
                                               ELSE game.penalties]
              [] OTHER -> Answered)

\* ask_with_hint: the second input(prompt), after the hint was printed
RetryInput ==
    /\ game.at = "retry"
    /\ \E line \in Lines :
         Read7(line, IF line = "q" THEN ToMenu ELSE Answered)

\* input("Press Enter to return to ... menu"): the line is discarded
EnterInput ==
    /\ game.at \in {"enter", "scores"}
    /\ \E line \in Lines : Read7(line, ToMenu)

Next7 ==
    \/ MenuInput
    \/ NameInput
    \/ CountInput
    \/ AnswerInput
    \/ RetryInput
    \/ EnterInput

Spec7 == Init7 /\ [][Next7]_vars

\* C15 as stated: in the 7-Second Subnetting game a 'q' typed at any input
\* prompt (menu, name, number of questions, every answer prompt, every
\* retry-after-hint prompt) quits the current activity and leaves the
\* program at the main menu.
Cex_C15_QuitAnywhere ==
    (game.last.line = "q"
        /\ game.last.prompt \in {"menu", "name", "count", "answer", "retry",
                                 "enter", "scores"})
    => (game.at = "menu" /\ game.activity = "menu")

(***************************************************************************)
(* changing_octet_challenge.py and magic_number_sprint.py: play.  Times    *)
(* are whole seconds (every value the code computes is integral); mult is  *)
(* kept as its exponent k, mult = 1.5^k.                                   *)
(***************************************************************************)
BASE_TIME == 10
STREAK_BONUS_TIME == 1
BASE_POINTS == 100
HINT_PENALTY == 50
WRONG_PENALTY == 75
MIN_TIME == 2

Max(a, b) == IF a >= b THEN a ELSE b

\* changing_octet_challenge.py
get_time_for_question(qnum) ==
    IF qnum < 10 THEN BASE_TIME - qnum * 1
    ELSE IF qnum < 20 THEN BASE_TIME - 9 - (qnum - 9) * 2
    ELSE IF qnum < 30 THEN BASE_TIME - 9 - 10 * 2 - (qnum - 19) * 3
    ELSE IF qnum < 40 THEN BASE_TIME - 9 - 10 * 2 - 10 * 3 - (qnum - 29) * 4
    ELSE Max(BASE_TIME - (9 + 20 + 30 + (qnum - 39) * 5), MIN_TIME)

\* magic_number_sprint.py
mns_get_time_for_question(q) ==
    IF q < 10 THEN BASE_TIME - q * 1
    ELSE IF q < 20 THEN BASE_TIME - 9 - (q - 9) * 2
    ELSE IF q < 30 THEN BASE_TIME - 9 - 10 * 2 - (q - 19) * 3
    ELSE IF q < 40 THEN BASE_TIME - 9 - 10 * 2 - 10 * 3 - (q - 29) * 4
    ELSE Max(BASE_TIME - (9 + 20 + 30 + (q - 39) * 5), MIN_TIME)

\* questions asked in one session
MaxQ == 9

Scripts == {"changing_octet_challenge", "magic_number_sprint"}

\* random.randint(0, 30)
TimerCidrs == {0, 12, 30}

\* what input() returns, stripped and lower-cased
TimerLines == {"q", "h", "x", "2", "4", "16"}

\* str.isdigit() and int()
TimerInt(s) ==
    CASE s = "2" -> Returns(2) [] s = "4" -> Returns(4) [] s = "16" -> Returns(16)
      [] OTHER -> Raises("ValueError")

BaseTimeOf(script, q) ==
    IF script = "changing_octet_challenge"
    THEN Max(get_time_for_question(q), MIN_TIME)
    ELSE Max(mns_get_time_for_question(q), MIN_TIME)

\* int(base * mult)
Points(base, k) == (base * 3^k) \div 2^k

InitTimer ==
    /\ NetIdle
    /\ RouteIdle
    /\ \E script \in Scripts :
         game = [script |-> script, at |-> "top", qnum |-> 0, time_limit |-> 0,
                 extra_time |-> 0, cidr |-> 0, score |-> 0, streak |-> 0,
                 best_streak |-> 0, mult |-> 0, highscore |-> 0]

\* the lines after the loop: the player's record is saved
SessionEnd(g) ==
    [g EXCEPT !.at = "ended", !.highscore = Max(g.highscore, g.score),
              !.best_streak = Max(g.best_streak, g.streak)]

\* top of the loop up to the blocking input()
TimerAsk ==
    /\ game.at = "top"
    /\ game.qnum < MaxQ
    /\ \E c \in TimerCidrs :
         LET q == game.qnum + 1
             time_limit == BaseTimeOf(game.script, q) + game.extra_time
             g == [game EXCEPT !.qnum = q, !.time_limit = time_limit,
                               !.extra_time = 0]
         IN game' = IF time_limit <= 0 THEN SessionEnd(g)
                    ELSE [g EXCEPT !.cidr = c, !.at = "input"]
    /\ UNCHANGED <<netVars, routeVars>>

\* SIGALRM fires before the line is entered
TimerTimeout ==
    /\ game.at = "input"
    /\ game' = SessionEnd(game)
    /\ UNCHANGED <<netVars, routeVars>>

\* the rest of the loop body for a graded answer
Graded(right, fast) ==
    LET bonus == right /\ game.streak > 0 /\ game.streak % 5 = 0
        k == IF bonus THEN game.mult + 1 ELSE game.mult
        base == IF fast THEN BASE_POINTS + 50 ELSE BASE_POINTS
        g == IF right
             THEN [game EXCEPT !.mult = k,
                      !.extra_time = IF bonus THEN game.extra_time + STREAK_BONUS_TIME
                                     ELSE game.extra_time,
                      !.score = game.score + Points(base, k),
                      !.streak = game.streak + 1,
                      !.best_streak = Max(game.best_streak, game.streak + 1)]
             ELSE [game EXCEPT !.score = Max(0, game.score - WRONG_PENALTY),
                      !.streak = 0, !.mult = 0]
    IN IF game.time_limit <= MIN_TIME THEN SessionEnd(g)
       ELSE [g EXCEPT !.at = "top"]

\* a line is entered in time
TimerAnswer ==
    /\ game.at = "input"
    /\ \E ans \in TimerLines, fast \in BOOLEAN :
         LET v == TimerInt(ans)
             valid == /\ v.raised = ""
                      /\ game.script = "changing_octet_challenge"
                            => (1 <= v.value /\ v.value <= 4)
             correct == IF game.script = "changing_octet_challenge"
                        THEN detect_octet(game.cidr)
                        ELSE magic_number(game.cidr)
         IN game' =
              CASE ans = "q" -> SessionEnd(game)
                [] ans = "h" ->
                     [game EXCEPT !.score = Max(0, game.score - HINT_PENALTY),
                                  !.at = "top"]
                [] ans \notin {"q", "h"} /\ ~valid -> [game EXCEPT !.at = "top"]
                [] OTHER -> Graded(v.value = correct, fast)
    /\ UNCHANGED <<netVars, routeVars>>

NextTimer ==
    \/ TimerAsk
    \/ TimerTimeout
    \/ TimerAnswer

SpecTimer == InitTimer /\ [][NextTimer]_vars

\* C16 as stated: in both scripts question 1 of a session is given a time
\* limit of BASE_TIME = 10 seconds, and the base limit of a later question
\* is never longer than that of the question before it.
Cex_C16_TimerStartsAtBase ==
    game.at = "input" =>
        /\ game.qnum = 1 => game.time_limit = BASE_TIME
        /\ BaseTimeOf(game.script, game.qnum + 1) <= BaseTimeOf(game.script, game.qnum)

(***************************************************************************)
(* Network_Address_Sprint.py: mode_speedrun with ask_network_question and  *)
(* timed_input.  game.clock is time.perf_counter() - start in whole        *)
(* seconds; it advances only while input() blocks.                         *)
(***************************************************************************)
duration == 60

DIFFICULTIES ==
    [c \in {"1", "2", "3"} |->
        CASE c = "1" -> [name |-> "Casual", per_q_time |-> 10, min_cidr |-> 16, max_cidr |-> 28]
          [] c = "2" -> [name |-> "Standard", per_q_time |-> 7, min_cidr |-> 12, max_cidr |-> 28]
          [] c = "3" -> [name |-> "Expert", per_q_time |-> 5, min_cidr |-> 8, max_cidr |-> 30]]

Min(a, b) == IF a <= b THEN a ELSE b

\* rand_private_ip()
SpeedrunIps == {VectorIp}

\* rand_cidr(min_cidr, max_cidr)
SpeedrunCidrs(diff) == {c \in {20, 24} : diff.min_cidr <= c /\ c <= diff.max_cidr}

\* seconds a player takes to enter a line
Durations == {6, 20}

\* a typed line: a word, or a dotted quad (ip)
Word(w) == [text |-> w, ip |-> ZeroIp]
Quad(a) == [text |-> "", ip |-> a]

\* lines entered at "Enter the network address": the right network, the
\* address itself, a non-address and q
SpeedrunLines(a, c) == {Quad(network_of(a, c)), Quad(a), Word("x"), Word("q")}

\* validate_ip_str
validate_ip_str(line) == line.text = ""

InitSpeedrun ==
    /\ NetIdle
    /\ RouteIdle
    /\ \E choice \in DOMAIN DIFFICULTIES :
         game = [diff |-> DIFFICULTIES[choice], at |-> "top", clock |-> 0,
                 per_q_soft |-> 0, ip |-> ZeroIp, cidr |-> 0,
                 total_correct |-> 0, attempts |-> 0, high |-> <<>>,
                 last |-> [line |-> Word(""), elapsed |-> 0, late |-> FALSE,
                           res |-> FALSE]]

\* record_high_score(mode_key, diff_key, total_correct); high is <<>> for None
SpeedrunEnd(g) ==
    [g EXCEPT !.at = "ended",
              !.high = IF g.high = <<>> \/ g.total_correct > g.high[1]
                       THEN <<g.total_correct>> ELSE g.high]

\* loop top: remaining, per_q_soft, then ask_network_question up to input()
SpeedrunAsk ==
    /\ game.at = "top"
    /\ LET remaining == duration - game.clock
       IN IF remaining <= 0
          THEN game' = SpeedrunEnd(game)
          ELSE \E a \in SpeedrunIps, c \in SpeedrunCidrs(game.diff) :
                 game' = [game EXCEPT
                            !.per_q_soft = Max(3, Min(game.diff.per_q_time, remaining)),
                            !.ip = a, !.cidr = c, !.at = "input"]
    /\ UNCHANGED <<netVars, routeVars>>

\* timed_input returns; ask_network_question grades; mode_speedrun counts
SpeedrunAnswer ==
    /\ game.at = "input"
    /\ \E elapsed \in Durations, line \in SpeedrunLines(game.ip, game.cidr) :
         LET late == elapsed > game.per_q_soft
             correct == network_of(game.ip, game.cidr)
             quit == line.text = "q"
             res == /\ validate_ip_str(line)
                    /\ ~late
                    /\ line.ip = correct
             g == [game EXCEPT !.clock = game.clock + elapsed,
                               !.last = [line |-> line, elapsed |-> elapsed,
                                         late |-> late, res |-> res]]
             counted == [g EXCEPT !.attempts = game.attempts + 1,
                                  !.total_correct = IF res THEN game.total_correct + 1
                                                    ELSE game.total_correct]
         IN game' = IF quit THEN SpeedrunEnd(g)
                    ELSE IF counted.clock >= duration THEN SpeedrunEnd(counted)
                    ELSE [counted EXCEPT !.at = "top"]
    /\ UNCHANGED <<netVars, routeVars>>

NextSpeedrun ==
    \/ SpeedrunAsk
    \/ SpeedrunAnswer

SpecSpeedrun == InitSpeedrun /\ [][NextSpeedrun]_vars

\* C17 as stated: in the 60-second Speedrun there is no per-question time
\* limit: a correct network address entered while the 60-second clock is
\* still running is counted as correct however long the question took.
Cex_C17_OnlyGlobalClock ==
    (/\ game.attempts > 0
     /\ game.last.line = Quad(network_of(game.ip, game.cidr))
     /\ game.clock < duration)
    => game.last.res

(***************************************************************************)
(* subnetsnapLevel1.py: main and ask_mc_question.  Levels 3 to 6 and both  *)
(* phases of level 7 run the same loop over their own card pool.  A card   *)
(* is its prefix length.  game.log is the sequence of graded answers the   *)
(* session has printed, each with the card it was about; game.loaded is    *)
(* what load_progress returned and game.file what the file holds.          *)
(***************************************************************************)
LEVEL == 1
TARGET_STREAK == 10

\* CIDRS = list(range(24, 31))
CARDS == <<24, 25, 26, 27, 28, 29, 30>>

\* graded answers in one session
MaxAnswered == 11

Reverse(seq) == [i \in 1..Len(seq) |-> seq[Len(seq) + 1 - i]]

\* random.shuffle(deck): the orders drawn
SnapShuffles(cards) == {cards, Reverse(cards)}

\* position of the correct option after random.shuffle(picks)
Positions == {1, 3}

\* what input("> ") returns, stripped and lower-cased
SnapLines == {"q", "h", "1", "3", "7", "x"}

\* ans.isdigit() and int(ans)
SnapInt(s) ==
    CASE s = "1" -> Returns(1) [] s = "3" -> Returns(3) [] s = "7" -> Returns(7)
      [] OTHER -> Raises("ValueError")

\* load_progress(): the default, or what an earlier run of any level saved
Loaded ==
    {[current_level |-> 1, best_streak |-> 0, high_score |-> 0],
     [current_level |-> 3, best_streak |-> 4, high_score |-> 6]}

InitSnap ==
    /\ NetIdle
    /\ RouteIdle
    /\ \E progress \in Loaded, deck \in SnapShuffles(CARDS) :
         game = [at |-> "top", deck |-> deck, card |-> 0, pos |-> 0,
                 was_hint |-> FALSE, score |-> 0, streak |-> 0,
                 best_streak |-> progress.best_streak,
                 loaded |-> progress, progress |-> progress,
                 file |-> progress, result |-> "", log |-> <<>>]

\* mutant: the card goes to the back of the deck
appendright(deck, card) == Append(deck, card)

\* deck.appendleft(card)
appendleft(deck, card) == <<card>> \o deck

\* the lines after the loop: save_progress
SnapSave(g) ==
    LET saved == [g.progress EXCEPT
                    !.best_streak = Max(g.progress.best_streak, g.best_streak),
                    !.high_score = Max(g.progress.high_score, g.score)]
    IN [g EXCEPT !.at = "ended", !.progress = saved, !.file = saved]

\* mutant: a wrong answer leaves the streak as it is
SnapGrade_keep_streak(g, ok) ==
    IF ok
    THEN [g EXCEPT !.score = g.score + 1, !.streak = g.streak + 1,
                   !.best_streak = Max(g.best_streak, g.streak + 1)]
    ELSE [g EXCEPT !.deck = appendleft(g.deck, g.card)]

\* main: if correct ... else ... of the loop body
SnapGrade(g, ok) ==
    IF ok
    THEN [g EXCEPT !.score = g.score + 1, !.streak = g.streak + 1,
                   !.best_streak = Max(g.best_streak, g.streak + 1)]
    ELSE [g EXCEPT !.streak = 0, !.deck = appendleft(g.deck, g.card)]

\* main: reshuffle when the deck is exhausted, popleft, and
\* ask_mc_question up to its input()
SnapDraw ==
    /\ game.at = "top"
    /\ Len(game.log) < MaxAnswered
    /\ \E fresh \in SnapShuffles(CARDS), pos \in Positions :
         LET deck == IF game.deck = <<>> THEN fresh ELSE game.deck
         IN game' = [game EXCEPT !.deck = Tail(deck), !.card = Head(deck),
                                 !.pos = pos, !.was_hint = FALSE, !.at = "input"]
    /\ UNCHANGED <<netVars, routeVars>>

\* ask_mc_question: q, quit or exit
SnapQuit ==
    /\ game.at = "input"
    /\ game' = SnapSave([game EXCEPT !.result = "quit"])
    /\ UNCHANGED <<netVars, routeVars>>

\* ask_mc_question: h
SnapHint ==
    /\ game.at = "input"
    /\ game' = [game EXCEPT !.was_hint = TRUE]
    /\ UNCHANGED <<netVars, routeVars>>

\* ask_mc_question: a digit in 1..len(choices) is graded, then main updates
\* score and streak and checks for the level-up; any other line asks again
SnapAnswer ==
    /\ game.at = "input"
    /\ \E ans \in SnapLines \ {"q", "h"} :
         LET v == SnapInt(ans)
             ok == v.value = game.pos
             g == SnapGrade([game EXCEPT !.log = Append(game.log,
                                [cidr |-> game.card, ok |-> ok])], ok)
         IN /\ v.raised = ""
            /\ 1 <= v.value /\ v.value <= 4
            /\ game' =
                 IF g.streak >= TARGET_STREAK
                 THEN SnapSave([g EXCEPT !.result = "level_up",
                         !.progress.current_level =
                             Max(g.progress.current_level, LEVEL + 1)])
                 ELSE [g EXCEPT !.at = "top"]
    /\ UNCHANGED <<netVars, routeVars>>

NextSnap ==
    \/ SnapDraw
    \/ SnapQuit
    \/ SnapHint
    \/ SnapAnswer

SpecSnap == InitSnap /\ [][NextSnap]_vars

\* number of correct answers at the end of the log, after the last wrong one
RECURSIVE TrailingCorrect(_)
TrailingCorrect(log) ==
    IF log = <<>> \/ ~log[Len(log)].ok THEN 0
    ELSE 1 + TrailingCorrect(SubSeq(log, 1, Len(log) - 1))

Thm_C19_MissedCardAskedNext ==
    (game.at = "input" /\ game.log # <<>> /\ ~game.log[Len(game.log)].ok)
        => game.card = game.log[Len(game.log)].cidr

Wit_C19_MissedCardAgain ==
    /\ game.at = "input"
    /\ Len(game.log) >= 2
    /\ ~game.log[Len(game.log)].ok
    /\ game.log[Len(game.log) - 1].cidr # game.card
    /\ game.deck # <<>>
    /\ game.card = game.log[Len(game.log)].cidr

(***************************************************************************)
(* cidr_flashL0.py: learning_session.  The session runs over the first     *)
(* NumCards entries of CIDR_TABLE.  A typed line is a record: slash says   *)
(* that it starts with "/", text is the rest when it is a word or a        *)
(* number, ip the rest when it is a dotted quad.                           *)
(***************************************************************************)
NumCards == 2
MaxAttempts == 6

\* CIDR_TABLE[:NumCards]
CIDR_TABLE == [i \in 1..NumCards |-> [cidr |-> i - 1, mask |-> mask_from_cidr(i - 1)]]

\* str(cidr)
Decimal == <<"0", "1", "2", "3", "4", "5", "6", "7", "8", "9">>
Str(c) == Decimal[c + 1]

Directions == {"cidr_to_mask", "mask_to_cidr", "mixed"}

\* the review pool that learning_session builds, before the shuffle
BuildPool(direction) ==
    IF direction = "mixed"
    THEN [k \in 1..(2 * Len(CIDR_TABLE)) |->
            [cidr |-> CIDR_TABLE[(k + 1) \div 2].cidr,
             mask |-> CIDR_TABLE[(k + 1) \div 2].mask,
             dir |-> IF k % 2 = 1 THEN "cidr_to_mask" ELSE "mask_to_cidr"]]
    ELSE [k \in 1..Len(CIDR_TABLE) |->
            [cidr |-> CIDR_TABLE[k].cidr, mask |-> CIDR_TABLE[k].mask,
             dir |-> direction]]

\* [c for c in ... if (c["cidr"], c["dir"]) not in mastered]
NotMastered(cards, mastered) ==
    SelectSeq(cards, LAMBDA c : <<c.cidr, c.dir>> \notin mastered)

\* lines typed at a card's prompt
FlashLines(q) ==
    {[slash |-> FALSE, text |-> "q", ip |-> ZeroIp],
     [slash |-> FALSE, text |-> "h", ip |-> ZeroIp],
     [slash |-> FALSE, text |-> "", ip |-> q.mask],
     [slash |-> FALSE, text |-> Str(q.cidr), ip |-> ZeroIp],
     [slash |-> TRUE, text |-> Str(q.cidr), ip |-> ZeroIp]}

\* ans == mask, and ans == str(cidr) after a leading "/" is dropped
IsRight(q, line) ==
    IF q.dir = "cidr_to_mask"
    THEN ~line.slash /\ line.text = "" /\ line.ip = q.mask
    ELSE line.text = Str(q.cidr)

InitFlash ==
    /\ NetIdle
    /\ RouteIdle
    /\ \E direction \in Directions :
         \E review_pool \in Shuffles(BuildPool(direction)) :
            game = [direction |-> direction, at |-> "top",
                    review_pool |-> review_pool, mastered |-> {},
                    total |-> Len(review_pool), attempts |-> 0,
                    q |-> None, quit |-> FALSE, recorded |-> None]

\* mutant: a missed card is not put back
FlashGrade_drop(g, ok) ==
    IF ok THEN [g EXCEPT !.mastered = g.mastered \cup {<<g.q.cidr, g.q.dir>>}]
    ELSE g

\* mastered.add((cidr, dirn)) or review_pool.append(q)
FlashGrade(g, ok) ==
    IF ok THEN [g EXCEPT !.mastered = g.mastered \cup {<<g.q.cidr, g.q.dir>>}]
    ELSE [g EXCEPT !.review_pool = Append(g.review_pool, g.q)]

\* the tail of the loop body: remaining, and the rebuild of an empty pool
FlashTail(g) ==
    LET remaining == g.total - Cardinality(g.mastered)
    IN IF g.review_pool = <<>> /\ remaining > 0
       THEN {[g EXCEPT !.at = "top", !.review_pool = rp] :
                rp \in Shuffles(NotMastered(BuildPool(g.direction), g.mastered))}
       ELSE {[g EXCEPT !.at = "top"]}

\* after the loop: record_score(mode_key, name, len(mastered), attempts, ...)
FlashEnd(g) ==
    [g EXCEPT !.at = "ended",
              !.recorded = [score |-> Cardinality(g.mastered),
                            attempted |-> g.attempts]]

\* while review_pool: q = review_pool.pop(0); attempts += 1
FlashPop ==
    /\ game.at = "top"
    /\ game.review_pool # <<>>
    /\ game.attempts < MaxAttempts
    /\ game' = [game EXCEPT !.q = Head(game.review_pool),
                            !.review_pool = Tail(game.review_pool),
                            !.attempts = game.attempts + 1, !.at = "first"]
    /\ UNCHANGED <<netVars, routeVars>>

\* while review_pool: the pool is empty
FlashDone ==
    /\ game.at = "top"
    /\ game.review_pool = <<>>
    /\ game' = FlashEnd(game)
    /\ UNCHANGED <<netVars, routeVars>>

\* the first input() of a card
FlashFirst ==
    /\ game.at = "first"
    /\ \E line \in FlashLines(game.q) :
         IF ~line.slash /\ line.text = "q"
         THEN game' = FlashEnd([game EXCEPT !.quit = TRUE])
         ELSE IF ~line.slash /\ line.text = "h"
         THEN game' = [game EXCEPT !.at = "retry"]
         ELSE game' \in FlashTail(FlashGrade(game, IsRight(game.q, line)))
    /\ UNCHANGED <<netVars, routeVars>>

\* input("Try again: ") after the hint
FlashRetry ==
    /\ game.at = "retry"
    /\ \E line \in FlashLines(game.q) :
         game' \in FlashTail(FlashGrade(game, IsRight(game.q, line)))
    /\ UNCHANGED <<netVars, routeVars>>

NextFlash ==
    \/ FlashPop
    \/ FlashDone
    \/ FlashFirst
    \/ FlashRetry

SpecFlash == InitFlash /\ [][NextFlash]_vars

\* the cards of a sequence, as (cidr, dir) keys
Keys(cards) == {<<cards[i].cidr, cards[i].dir>> : i \in 1..Len(cards)}

\* C20: at the start of every iteration of learning_session's loop the
\* review pool holds exactly the cards not yet mastered, each once; a
\* session that is not quit ends only with mastered == total; and once
\* every card has been answered correctly the pool is empty, so the loop
\* ends.
Thm_C20_PoolIsUnmastered ==
    LET deck == Keys(BuildPool(game.direction))
        left == Keys(game.review_pool)
    IN /\ game.at = "top" =>
            /\ Cardinality(left) = Len(game.review_pool)
            /\ left \cap game.mastered = {}
            /\ left \cup game.mastered = deck
            /\ game.mastered = deck => game.review_pool = <<>>
       /\ game.total = Cardinality(deck)
       /\ (game.at = "ended" /\ ~game.quit) =>
            /\ Cardinality(game.mastered) = game.total
            /\ game.recorded.score = game.total

Wit_C20_AllMasteredAfterAMiss ==
    /\ game.at = "ended"
    /\ ~game.quit
    /\ game.direction = "mixed"
    /\ Cardinality(game.mastered) = game.total
    /\ game.attempts > game.total

(***************************************************************************)
(* ieee802_trainer.py: mode_anki_mc_full.  A card is its code; the deck is *)
(* the first DeckSize cards of STANDARDS_CORE.  game.log is the sequence   *)
(* of "Correct!" / "Incorrect." verdicts printed, each with its card.      *)
(***************************************************************************)
DeckSize == 3
MaxTries == 6

STANDARDS_CORE ==
    <<"802.1Q", "802.1X", "802.3", "802.11a", "802.11b", "802.11g", "802.11n",
      "802.11ac", "802.11ax", "802.15.1", "802.15.4">>

\* the pool handed to mode_anki_mc_full
AnkiPool == SubSeq(STANDARDS_CORE, 1, Min(DeckSize, Len(STANDARDS_CORE)))

\* random.sample(items, k=min(n, len(items))): the first k items, the order
\* being drawn by the shuffle that follows
pick_n_unique(items, k) == SubSeq(items, 1, Min(k, Len(items)))

\* make_mc_variants: picks, in the orders drawn
make_mc_variants(target, cards) ==
    LET wrongs == SelectSeq(cards, LAMBDA c : c # target)
    IN SnapShuffles(pick_n_unique(wrongs, 3) \o <<target>>)

\* what input() returns, stripped and lower-cased
AnkiLines == {"q", "h", "x", "0", "1", "2", "4", "5"}

\* user.isdigit() and int(user)
AnkiInt(s) ==
    CASE s = "0" -> Returns(0) [] s = "1" -> Returns(1) [] s = "2" -> Returns(2)
      [] s = "4" -> Returns(4) [] s = "5" -> Returns(5)
      [] OTHER -> Raises("ValueError")

InitAnki ==
    /\ NetIdle
    /\ RouteIdle
    /\ \E remaining \in SnapShuffles(AnkiPool) :
         game = [at |-> "top", remaining |-> remaining, mastered |-> <<>>,
                 total_attempts |-> 0, correct_attempts |-> 0, card |-> "",
                 picks |-> <<>>, reported |-> FALSE, log |-> <<>>]

\* mutant: a wrongly answered card is mastered too
AnkiGrade_master_anyway(g, ok) ==
    IF ok
    THEN [g EXCEPT !.correct_attempts = g.correct_attempts + 1,
                   !.mastered = Append(g.mastered, g.card),
                   !.remaining = Tail(g.remaining)]
    ELSE [g EXCEPT !.mastered = Append(g.mastered, g.card),
                   !.remaining = Tail(g.remaining)]

\* the two branches after guess = int(user) - 1
AnkiGrade(g, ok) ==
    IF ok
    THEN [g EXCEPT !.correct_attempts = g.correct_attempts + 1,
                   !.mastered = Append(g.mastered, g.card),
                   !.remaining = Tail(g.remaining)]
    ELSE [g EXCEPT !.remaining = Append(Tail(g.remaining), Head(g.remaining))]

\* while remaining: card = remaining[0]; total_attempts += 1; the choices
\* are drawn and printed, up to input()
AnkiAsk ==
    /\ game.at = "top"
    /\ game.remaining # <<>>
    /\ game.total_attempts < MaxTries
    /\ \E picks \in make_mc_variants(game.remaining[1], AnkiPool) :
         game' = [game EXCEPT !.card = game.remaining[1],
                              !.total_attempts = game.total_attempts + 1,
                              !.picks = picks, !.at = "input"]
    /\ UNCHANGED <<netVars, routeVars>>

\* while remaining: the list is empty; "All cards mastered!" is printed
AnkiAllMastered ==
    /\ game.at = "top"
    /\ game.remaining = <<>>
    /\ game' = [game EXCEPT !.at = "done", !.reported = TRUE]
    /\ UNCHANGED <<netVars, routeVars>>

\* the line entered: quit, hint, not a number, or a graded guess
AnkiInput ==
    /\ game.at = "input"
    /\ \E user \in AnkiLines :
         LET v == AnkiInt(user)
             guess == v.value - 1
             ok == /\ 0 <= guess /\ guess < Len(game.picks)
                   /\ game.picks[guess + 1] = game.card
         IN game' =
              CASE user = "q" -> [game EXCEPT !.at = "quit"]
                [] user = "h" -> [game EXCEPT !.at = "top"]
                [] user \notin {"q", "h"} /\ v.raised # "" -> [game EXCEPT !.at = "top"]
                [] OTHER ->
                     AnkiGrade([game EXCEPT !.at = "top",
                                   !.log = Append(game.log,
                                              [code |-> game.card, ok |-> ok])], ok)
    /\ UNCHANGED <<netVars, routeVars>>

NextAnki ==
    \/ AnkiAsk
    \/ AnkiAllMastered
    \/ AnkiInput

SpecAnki == InitAnki /\ [][NextAnki]_vars

Elems(seq) == {seq[i] : i \in 1..Len(seq)}

\* the cards of the correct verdicts, in order
RECURSIVE CorrectCards(_)
CorrectCards(log) ==
    IF log = <<>> THEN <<>>
    ELSE IF log[Len(log)].ok
    THEN Append(CorrectCards(SubSeq(log, 1, Len(log) - 1)), log[Len(log)].code)
    ELSE CorrectCards(SubSeq(log, 1, Len(log) - 1))

\* C21: mastered and remaining always partition the deck; mastered is
\* exactly the cards answered correctly, in that order, so a card enters it
\* only on a correct answer and never leaves; a wrongly answered card is at
\* the end of remaining; and "All cards mastered" is reported only when
\* every card of the deck has been answered correctly exactly once.
Thm_C21_MasteredRemainingPartition ==
    LET deck == Elems(AnkiPool)
        right == CorrectCards(game.log)
    IN /\ Elems(game.remaining) \cup Elems(game.mastered) = deck
       /\ Elems(game.remaining) \cap Elems(game.mastered) = {}
       /\ Len(game.remaining) + Len(game.mastered) = Cardinality(deck)
       /\ game.mastered = right
       /\ game.correct_attempts = Len(right)
       /\ (game.log # <<>> /\ ~game.log[Len(game.log)].ok) =>
             game.remaining[Len(game.remaining)] = game.log[Len(game.log)].code
       /\ game.reported =>
             /\ game.remaining = <<>>
             /\ \A c \in deck :
                   Cardinality({i \in 1..Len(game.log) :
                                   game.log[i].ok /\ game.log[i].code = c}) = 1

Wit_C21_AllMasteredAfterRetry ==
    /\ game.reported
    /\ Len(game.log) > Len(AnkiPool)
    /\ Elems(game.mastered) = Elems(AnkiPool)
    /\ \E i \in 1..Len(game.log) : ~game.log[i].ok

(***************************************************************************)
(* next_hop_trainer.py: save_score and load_scores.  game.file is the      *)
(* content of the score file, game.submitted every entry ever passed to    *)
(* save_score, per mode and in call order.  ts is the number of the call   *)
(* (the clock's seconds only grow from one game to the next).              *)
(***************************************************************************)
TopN == 20
MaxSaves == 3

Modes == {"classic", "speedrun"}

\* total_points values handed to save_score
PointSamples == {4, 5, 6}

\* mutant: an entry goes in front of the entries equal in points
InsertByPoints_before_equal(sorted, x) ==
    LET k == Cardinality({i \in 1..Len(sorted) : sorted[i].points > x.points})
    IN SubSeq(sorted, 1, k) \o <<x>> \o SubSeq(sorted, k + 1, Len(sorted))

\* sorted(..., key=points, reverse=True) is stable: an entry goes behind
\* the entries already there that are equal in points
InsertByPoints(sorted, x) ==
    LET k == Cardinality({i \in 1..Len(sorted) : sorted[i].points >= x.points})
    IN SubSeq(sorted, 1, k) \o <<x>> \o SubSeq(sorted, k + 1, Len(sorted))

RECURSIVE SortedByPoints(_)
SortedByPoints(seq) ==
    IF seq = <<>> THEN <<>>
    ELSE InsertByPoints(SortedByPoints(SubSeq(seq, 1, Len(seq) - 1)), seq[Len(seq)])

\* load_scores() when the file does not exist
NoScores == [classic |-> <<>>, speedrun |-> <<>>]

\* save_score(mode, name, points), on the loaded data
save_score(data, mode, name, points, ts) ==
    LET appended == Append(data[mode], [name |-> name, points |-> points, ts |-> ts])
        sorted == SortedByPoints(appended)
    IN [data EXCEPT ![mode] = SubSeq(sorted, 1, Min(TopN, Len(sorted)))]

\* points of the classic games played before the ones followed here
EarlierGames ==
    {<<>>,
     [i \in 1..(TopN - 1) |-> 5],
     [i \in 1..(TopN - 1) |-> IF i % 2 = 0 THEN 4 ELSE 6]}

\* the file after save_score("classic", "ann", points[i]) for each i in turn
RECURSIVE Saved(_)
Saved(points) ==
    IF points = <<>> THEN NoScores
    ELSE save_score(Saved(SubSeq(points, 1, Len(points) - 1)),
                    "classic", "ann", points[Len(points)], Len(points))

InitScores ==
    /\ NetIdle
    /\ RouteIdle
    /\ \E earlier \in EarlierGames :
         game = [file |-> Saved(earlier),
                 submitted |-> [classic |-> [i \in 1..Len(earlier) |->
                                    [name |-> "ann", points |-> earlier[i], ts |-> i]],
                                speedrun |-> <<>>],
                 calls |-> 0]

\* a game ends: save_score(mode, name, total_points)
SaveScore ==
    /\ game.calls < MaxSaves
    /\ \E mode \in Modes, points \in PointSamples :
         LET ts == Len(game.submitted.classic) + Len(game.submitted.speedrun) + 1
         IN game' = [game EXCEPT
                       !.file = save_score(game.file, mode, "bob", points, ts),
                       !.submitted[mode] = Append(game.submitted[mode],
                             [name |-> "bob", points |-> points, ts |-> ts]),
                       !.calls = game.calls + 1]
    /\ UNCHANGED <<netVars, routeVars>>

NextScores == SaveScore

SpecScores == InitScores /\ [][NextScores]_vars

\* place of entry e among the entries all: 1 + the entries with more
\* points + the older entries with equal points
RankIn(all, e) ==
    1 + Cardinality({i \in 1..Len(all) :
                        \/ all[i].points > e.points
                        \/ all[i].points = e.points /\ all[i].ts < e.ts})

\* C22: after any sequence of save_score calls each mode's stored list is
\* ordered by points descending, has at most 20 entries, and consists of
\* the 20 highest-scoring entries ever submitted for that mode, an older
\* entry winning a tie against a newer one with equal points.
Thm_C22_TopTwentyKept ==
    \A mode \in Modes :
        LET list == game.file[mode]
            all == game.submitted[mode]
        IN /\ Len(list) <= TopN
           /\ \A i \in 1..(Len(list) - 1) : list[i].points >= list[i + 1].points
           /\ Len(list) = Min(TopN, Len(all))
           /\ {list[i] : i \in 1..Len(list)}
                = {all[i] : i \in {j \in 1..Len(all) : RankIn(all, all[j]) <= TopN}}

Wit_C22_NewerTieDropped ==
    /\ Len(game.submitted.classic) = TopN + 1
    /\ \A i \in 1..(TopN + 1) : game.submitted.classic[i].points = 5
    /\ Len(game.file.classic) = TopN
    /\ \A i \in 1..TopN : game.file.classic[i].ts # TopN + 1

(***************************************************************************)
(* 7-second-subnetting.py: the recap of step_by_step_explanation against   *)
(* the scoring of play_question.  Addresses are the octets of their        *)
(* dotted-quad strings; both sides print octets in plain decimal.          *)
(***************************************************************************)
\* mutant: the block number is taken for the block start
locate_block_number(value, magic) ==
    LET start == value \div magic
        end == Min(start + magic - 1, 255)
    IN <<start, end>>

locate_block(value, magic) ==
    LET start == (value \div magic) * magic
        end == Min(start + magic - 1, 255)
    IN <<start, end>>

\* [(i, min(i + magic - 1, 255)) for i in range(0, 256, magic)]
blocks_in_octet(magic) ==
    [k \in 1..((255 \div magic) + 1) |->
        <<(k - 1) * magic, Min((k - 1) * magic + magic - 1, 255)>>]

\* manual_net, manual_bc and the recap's marks for the answers given
step_by_step_explanation(a, c, user_net, user_bc) ==
    LET m == calculate_magic_number(c)
        mi == changed_octet_index(c)
        block == locate_block(a[mi + 1], m)
        net_oct == [j \in 1..4 |-> IF j < mi + 1 THEN a[j]
                                   ELSE IF j = mi + 1 THEN block[1] ELSE 0]
        bc_oct == [j \in 1..4 |-> IF j < mi + 1 THEN a[j]
                                  ELSE IF j = mi + 1 THEN block[2] ELSE 255]
    IN [manual_net |-> net_oct, manual_bc |-> bc_oct, blocks |-> blocks_in_octet(m),
        recap_net |-> (user_net = net_oct), recap_bc |-> (user_bc = bc_oct)]

\* net_correct and bc_correct of play_question
play_question(a, c, user_net, user_bc) ==
    LET r == network_broadcast(a, c)
    IN [net_correct |-> (user_net = r[1]), bc_correct |-> (user_bc = r[2])]

\* what the player types at the two address prompts: the address asked
\* about, the right network, the right broadcast, or 0.0.0.0
UserAnswers(a, c) == {a, network_broadcast(a, c)[1], network_broadcast(a, c)[2], ZeroIp}

InitRecap ==
    /\ ip \in Addrs
    /\ cidr \in PrefixLens
    /\ fn = "input"
    /\ out = Idle
    /\ RouteIdle
    /\ game = Idle

\* play_question from the broadcast prompt on: scoring, then the recap
PlayQuestion ==
    /\ fn = "input"
    /\ \E user_net \in UserAnswers(ip, cidr), user_bc \in UserAnswers(ip, cidr) :
         LET q == play_question(ip, cidr, user_net, user_bc)
             e == step_by_step_explanation(ip, cidr, user_net, user_bc)
         IN out' = [user_net |-> user_net, user_bc |-> user_bc,
                    net_correct |-> q.net_correct, bc_correct |-> q.bc_correct,
                    manual_net |-> e.manual_net, manual_bc |-> e.manual_bc,
                    blocks |-> e.blocks,
                    recap_net |-> e.recap_net, recap_bc |-> e.recap_bc]
    /\ fn' = "play_question"
    /\ UNCHANGED <<ip, cidr, routeVars, game>>

NextRecap == PlayQuestion

SpecRecap == InitRecap /\ [][NextRecap]_vars

\* C23: the manual magic-number method of step_by_step_explanation gives,
\* for every address and every prefix length 0..32, the network (address
\* AND mask) and broadcast (network OR NOT mask) of network_broadcast, so
\* the recap's marks agree with the scoring of play_question.
Thm_C23_ManualMethodIsNetworkBroadcast ==
    fn = "play_question" =>
        LET mask == ip_int_from_prefix(cidr)
            nw == WAnd(IpInt(ip), mask)
            bc == WOr(nw, WXor(mask, ALL_ONES))
        IN /\ out.manual_net = IpStr(nw)
           /\ out.manual_bc = IpStr(bc)
           /\ out.manual_net = network_broadcast(ip, cidr)[1]
           /\ out.manual_bc = network_broadcast(ip, cidr)[2]
           /\ out.recap_net = out.net_correct
           /\ out.recap_bc = out.bc_correct

Wit_C23_VectorRecap ==
    /\ fn = "play_question"
    /\ ip = VectorIp
    /\ cidr = 20
    /\ out.manual_net = <<192, 168, 32, 0>>
    /\ out.manual_bc = <<192, 168, 47, 255>>
    /\ out.user_net = <<192, 168, 32, 0>>
    /\ out.recap_net
    /\ ~out.recap_bc

(***************************************************************************)
(* subnetsnapLevel1/3/4/5/6/7.py: the block size within the changing octet *)
(* and the block-range loops of the visual hints.  2 ** (32 - cidr) is a   *)
(* Python int of up to 33 bits, held as [hi, lo] with hi unbounded.        *)
(***************************************************************************)
MaxIter == 256

block_size_from_cidr(c) == WShl1(32 - c)

\* w // d for d = 256 ** k
FloorDiv(w, d) ==
    IF d % Half = 0 THEN W(0, w.hi \div (d \div Half))
    ELSE W(w.hi \div d, ((w.hi % d) * Half + w.lo) \div d)

\* the int, for values below 2^31
IntOf(w) == w.hi * Half + w.lo

\* Levels 4 to 7: 1-based index of the first mask byte that is not 255
detect_changing_octet(c) ==
    LET i == FirstNot255(IpStr(IPv4Network(IpInt(ZeroIp), c).netmask), 1)
    IN IF i # 0 THEN i ELSE 4

\* CIDRS of each level script
LevelCidrs(level) ==
    CASE level = 1 -> 24..30
      [] level = 3 -> 8..15
      [] level = 4 -> 16..30
      [] level = 5 -> 8..30
      [] level = 6 -> 0..8
      [] level = 7 -> 0..30

Levels == {1, 3, 4, 5, 6, 7}

\* the levels whose hint runs a while start < 256 loop
LoopLevels == {1, 3, 4, 6}

\* Level 1, block_ranges_last_octet: size
block_ranges_last_octet_size(c) == IntOf(block_size_from_cidr(c))

\* Level 3, block_ranges_second_octet: size
block_ranges_second_octet_size(c) == IntOf(FloorDiv(block_size_from_cidr(c), 256 * 256))

\* mutant: the divisor is looked up at octet - 1 instead of 4 - octet
build_ranges_step_by_octet(c) ==
    LET size == block_size_from_cidr(c)
        octet == detect_changing_octet(c)
        div == <<1, 256, 256 * 256, 256 * 256 * 256>>[octet]
    IN IntOf(FloorDiv(size, div))

\* Level 4, build_ranges: step
build_ranges_step(c) ==
    LET size == block_size_from_cidr(c)
        octet == detect_changing_octet(c)
        div == <<1, 256, 256 * 256, 256 * 256 * 256>>[(4 - octet) + 1]
    IN IntOf(FloorDiv(size, div))

\* Level 6, build_ranges: step
build_ranges_step6(c) ==
    LET size == block_size_from_cidr(c)
        octet == detect_changing_octet(c)
        div == <<1, 256, 256 * 256, 256 * 256 * 256>>[(4 - octet) + 1]
    IN Max(1, IntOf(FloorDiv(size, div)))

\* Level 5, visual_hint: step
visual_hint_step(c) ==
    LET octet == detect_changing_octet(c)
        block == block_size_from_cidr(c)
        div == <<1, 256 * 256 * 256, 256 * 256, 256, 1>>[octet + 1]
    IN Max(1, IntOf(FloorDiv(block, div)))

\* mutant: every octet is divided like the first one
per_octet_step_first_octet(c, changing_octet) ==
    LET global_block == block_size_from_cidr(c)
        divisor == 256 * 256 * 256
        step == Max(1, IntOf(FloorDiv(global_block, divisor)))
    IN Min(step, 256)

\* Level 7
per_octet_step(c, changing_octet) ==
    LET global_block == block_size_from_cidr(c)
        divisor == <<1, 256 * 256 * 256, 256 * 256, 256, 1>>[changing_octet + 1]
        step == Max(1, IntOf(FloorDiv(global_block, divisor)))
    IN Min(step, 256)

\* the octet each level's hint names as the changing one
HintOctet(level, c) ==
    CASE level = 1 -> 4
      [] level = 3 -> 2
      [] OTHER -> detect_changing_octet(c)

\* the block size each level's hint prints
HintStep(level, c) ==
    CASE level = 1 -> block_ranges_last_octet_size(c)
      [] level = 3 -> block_ranges_second_octet_size(c)
      [] level = 4 -> build_ranges_step(c)
      [] level = 5 -> visual_hint_step(c)
      [] level = 6 -> build_ranges_step6(c)
      [] level = 7 -> per_octet_step(c, detect_changing_octet(c))

InitRanges ==
    /\ NetIdle
    /\ RouteIdle
    /\ \E level \in Levels :
         \E c \in LevelCidrs(level) :
            game = [level |-> level, cidr |-> c, at |-> "called",
                    octet |-> 0, step |-> 0, start |-> 0, ranges |-> <<>>]

\* up to the loop: size or step, start = 0, ranges = []
RangesStep ==
    /\ game.at = "called"
    /\ game' = [game EXCEPT
                  !.octet = HintOctet(game.level, game.cidr),
                  !.step = HintStep(game.level, game.cidr),
                  !.at = IF game.level \in LoopLevels THEN "loop" ELSE "returned"]
    /\ UNCHANGED <<netVars, routeVars>>

\* one pass of while start < 256
RangesIter ==
    /\ game.at = "loop"
    /\ game.start < 256
    /\ Len(game.ranges) < MaxIter
    /\ LET end == Min(game.start + game.step - 1, 255)
       IN game' = [game EXCEPT
                     !.ranges = Append(game.ranges, <<game.start, end>>),
                     !.start = game.start + game.step]
    /\ UNCHANGED <<netVars, routeVars>>

\* start >= 256: return ranges
RangesReturn ==
    /\ game.at = "loop"
    /\ game.start >= 256
    /\ game' = [game EXCEPT !.at = "returned"]
    /\ UNCHANGED <<netVars, routeVars>>

NextRanges ==
    \/ RangesStep
    \/ RangesIter
    \/ RangesReturn

\* the interpreter keeps running a loop it has entered
SpecRanges == InitRanges /\ [][NextRanges]_vars /\ WF_vars(RangesIter \/ RangesReturn)

\* magic = 256 - mask octet of the changing octet
MagicOf(c) ==
    LET mask == mask_octets_from_cidr(c)
    IN 256 - mask[FirstNot255(mask, 1)]

\* C24: every division-based re-derivation of the per-octet block size
\* (Level 7 per_octet_step, Level 4 and Level 6 build_ranges, Level 5
\* visual_hint, Level 3 block_ranges_second_octet) returns, for each prefix
\* length of its own card pool, magic = 256 - mask octet of the changing
\* octet.
Thm_C24_StepIsMagic ==
    (game.at # "called" /\ game.level \in {3, 4, 5, 6, 7}) =>
        /\ game.step = MagicOf(game.cidr)
        /\ game.octet = FirstNot255(mask_octets_from_cidr(game.cidr), 1)

Wit_C24_WholeOctetSteps ==
    /\ game.at = "returned"
    /\ game.level = 7
    /\ game.cidr = 8
    /\ game.octet = 2
    /\ game.step = 256

\* the ranges returned are 256/step contiguous ranges covering 0..255
RangesCover ==
    LET r == game.ranges
        magic == MagicOf(game.cidr)
    IN /\ game.step >= 1
       /\ Len(r) * game.step = 256
       /\ Len(r) * magic = 256
       /\ r[1][1] = 0
       /\ r[Len(r)][2] = 255
       /\ \A i \in 1..Len(r) : r[i][1] <= r[i][2] /\ r[i][2] - r[i][1] + 1 = game.step
       /\ \A i \in 1..(Len(r) - 1) : r[i + 1][1] = r[i][2] + 1

\* C25: for every CIDR of the module's own card pool the block-range loops
\* (while start < 256: ... start += step) terminate, the step being at
\* least 1, and return exactly 256/step contiguous, non-overlapping ranges
\* that together cover 0..255 (a single range 0-255 when the step is 256).
Thm_C25_RangeLoopsTerminateAndCover ==
    (game.at = "loop") ~> (game.at = "returned" /\ RangesCover)

Wit_C25_SingleRange ==
    /\ game.at = "returned"
    /\ game.level = 4
    /\ game.cidr = 16
    /\ game.step = 256
    /\ game.ranges = << <<0, 255>> >>

=============================================================================
